---- MODULE Spec2Model ----
(***************************************************************************)
(* Model of the dev-events application: the cached connection accessor     *)
(* connectDB (lib/mongodb, listed in TEST_SUITE_README.md), the inline     *)
(* accessor dbConnect and the GET handler of app/api/events/[slug]/route,  *)
(* and the Booking schema with its referential checks.                     *)
(*                                                                         *)
(* An async function is a process: its code up to an await is one step,    *)
(* the code after the await is a later step that is enabled once the       *)
(* awaited promise is settled.  A continuation is a job of its own: a      *)
(* caller that awaits a promise which is already settled has its job       *)
(* queued behind the jobs queued before it, so the continuations of the    *)
(* waiters of one promise can be separated by other callers' steps.        *)
(***************************************************************************)
EXTENDS Naturals, Integers, Sequences, FiniteSets, TLC

(* ------------------------------ bounds --------------------------------- *)
NumCallers == 2
NumRequests == 2
MaxAttempts == 3
MaxLoads == 2
MaxObjs == 2
MaxEvents == 1
MaxBookings == 1
NumWriters == 1
MaxSeqEvents == 2
MaxSeqBookings == 2
MaxEmailLen == 6
MaxShortSlug == 2
MaxTitleLen == 3

Callers == 1..NumCallers
Requests == 1..NumRequests
Attempts == 1..MaxAttempts
Objs == 1..MaxObjs
Writers == 1..NumWriters

(* --------------------------- value domains ----------------------------- *)
\* null in cached.conn / cached.promise, undefined in global.mongoose
NoConn == "null"
NoPromise == 0
Undefined == 0
\* what mongoose.connect resolves with: the mongoose instance itself
Mongoose == "mongoose"
\* what a caller gets when the awaited attempt rejects
ConnectionError == "connection_error"
\* thrown when MONGODB_URI is not set
ConfigError == "config_error"
\* what Event.findOne rejects with
QueryError == "query_error"
QueryTimeout == "query_timeout"
QueryErrors == {QueryError, QueryTimeout}
NoResult == "none"
NoDoc == [id |-> 0, eventId |-> 0, email |-> <<>>, given |-> <<>>,
          isNew |-> FALSE, modEventId |-> FALSE, modEmail |-> FALSE]

VARIABLES
  uriDefined,      \* process.env.MONGODB_URI is set
  globalMongoose,  \* global.mongoose: Undefined or a cache object
  cacheConn,       \* cache object -> conn
  cachePromise,    \* cache object -> promise (an attempt) or NoPromise
  objCount,        \* number of cache objects created
  attempt,         \* attempt -> "none" | "pending" | "ok" | "failed"
  connectCalls,    \* number of mongoose.connect calls made
  cached,          \* lib/mongodb: the module's `cached` binding (0: not loaded)
  libLoad,         \* lib/mongodb: "none" | "ok" | "threw" (last require)
  libLoads,        \* lib/mongodb: number of module initialisations
  cpc,             \* connectDB caller -> "idle" | "await" | "done"
  catt,            \* connectDB caller -> the promise its await is on
  cobj,            \* connectDB caller -> cache object of its module instance
  cmod,            \* connectDB caller -> the module instance it called
  cres,            \* connectDB caller -> outcome of its call
  routeLoaded,     \* route.ts: the module has been initialised
  gpc,             \* GET request -> "idle" | "connect" | "query" | "done"
  gslug,           \* GET request -> context.params.slug
  gatt,            \* GET request -> the promise dbConnect's await is on
  gresp,           \* GET request -> the response returned
  glog,            \* GET request -> the exception its catch block logged
  eventStore,      \* the Event collection: a set of documents
  eventCount,      \* number of Event identifiers issued by the store
  eventRes,        \* the latest Event.create: the title given and its outcome
  bookings,        \* the Booking collection: a set of documents
  bookingCount,    \* number of Booking identifiers issued
  wpc,             \* save() -> "idle" | "validate" | "hook" | "write" | "done"
  wdoc,            \* save() -> the document being saved
  wres,            \* save() -> outcome
  wlive0           \* save() -> the referenced Event was stored at the call

connVars == <<uriDefined, globalMongoose, cacheConn, cachePromise, objCount,
              attempt, connectCalls>>
libVars == <<cached, libLoad, libLoads, cpc, catt, cobj, cmod, cres>>
routeVars == <<routeLoaded, gpc, gslug, gatt, gresp, glog>>
storeVars == <<eventStore, eventCount, eventRes>>
bookVars == <<bookings, bookingCount, wpc, wdoc, wres, wlive0>>
vars == <<connVars, libVars, routeVars, storeVars, bookVars>>

(* ---------------------- lib/mongodb: connectDB ------------------------- *)

AlwaysFreshCache(g, fresh) == fresh

\* `global.mongoose || { conn: null, promise: null }`
InitialCache(g, fresh) == IF g # Undefined THEN g ELSE fresh

NeverCachedConn(conn) == FALSE

\* `if (cached.conn) return cached.conn`
HasCachedConn(conn) == conn # NoConn

AlwaysStartConnect(promise) == TRUE

\* `if (!cached.promise)`: a connect attempt is started
ShouldStartConnect(promise) == promise = NoPromise

SettledWhenResolved(status) == status = "ok"

\* `await promise` goes on once the promise is resolved or rejected
Settled(status) == status \in {"ok", "failed"}

KeepPromiseAfterReject(promise) == promise

\* catch block: `cached.promise = null`
PromiseAfterReject(promise) == NoPromise

\* try block: `cached.conn = await cached.promise`
ConnAfterResolve(value) == value

ResumeOutcomeIgnoringStatus(status, conn) == conn

\* what the call ends with once the awaited promise is settled:
\* `return cached.conn` after the assignment, or `throw error`
ResumeOutcome(status, conn) == IF status = "ok" THEN conn ELSE ConnectionError

\* `if (!MONGODB_URI)` at module level
LibUriMissing(defined) == ~defined

\* require('@/lib/mongodb'): throws without MONGODB_URI, else binds `cached`
\* to the global cache, creating it when global.mongoose is undefined
LibLoad ==
  /\ libLoads < MaxLoads
  /\ libLoads' = libLoads + 1
  /\ IF LibUriMissing(uriDefined)
     THEN /\ libLoad' = "threw"
          /\ UNCHANGED <<cached, globalMongoose, objCount>>
     ELSE LET fresh == objCount + 1
              o == InitialCache(globalMongoose, fresh) IN
          /\ o \in Objs
          /\ libLoad' = "ok"
          /\ cached' = o
          /\ objCount' = IF o = fresh THEN fresh ELSE objCount
          /\ globalMongoose' = IF globalMongoose = Undefined THEN o
                               ELSE globalMongoose
  /\ UNCHANGED <<uriDefined, cacheConn, cachePromise, attempt, connectCalls,
                 cpc, catt, cobj, cmod, cres, routeVars, storeVars, bookVars>>

\* connectDB() up to its await (or its early return)
ConnectDBCall(c) ==
  /\ cpc[c] = "idle"
  /\ libLoad = "ok"
  /\ cmod' = [cmod EXCEPT ![c] = libLoads]
  /\ LET o == cached IN
     IF HasCachedConn(cacheConn[o])
     THEN /\ cpc' = [cpc EXCEPT ![c] = "done"]
          /\ cres' = [cres EXCEPT ![c] = cacheConn[o]]
          /\ cobj' = [cobj EXCEPT ![c] = o]
          /\ UNCHANGED <<catt, cachePromise, attempt, connectCalls>>
     ELSE /\ IF ShouldStartConnect(cachePromise[o])
             THEN /\ connectCalls < MaxAttempts
                  /\ connectCalls' = connectCalls + 1
                  /\ attempt' = [attempt EXCEPT ![connectCalls + 1] = "pending"]
                  /\ cachePromise' = [cachePromise EXCEPT ![o] = connectCalls + 1]
             ELSE UNCHANGED <<connectCalls, attempt, cachePromise>>
          /\ cpc' = [cpc EXCEPT ![c] = "await"]
          /\ catt' = [catt EXCEPT ![c] = cachePromise'[o]]
          /\ cobj' = [cobj EXCEPT ![c] = o]
          /\ UNCHANGED cres
  /\ UNCHANGED <<uriDefined, globalMongoose, cacheConn, objCount, cached,
                 libLoad, libLoads, routeVars, storeVars, bookVars>>

\* connectDB() after its await: the try block's assignment and return, or
\* the catch block
ConnectDBResume(c) ==
  /\ cpc[c] = "await"
  /\ Settled(attempt[catt[c]])
  /\ LET o == cobj[c]
         status == attempt[catt[c]] IN
     /\ IF status = "ok"
        THEN /\ cacheConn' = [cacheConn EXCEPT ![o] = ConnAfterResolve(Mongoose)]
             /\ UNCHANGED cachePromise
        ELSE /\ cachePromise' = [cachePromise EXCEPT
                                   ![o] = PromiseAfterReject(cachePromise[o])]
             /\ UNCHANGED cacheConn
     /\ cres' = [cres EXCEPT ![c] = ResumeOutcome(status, cacheConn'[o])]
  /\ cpc' = [cpc EXCEPT ![c] = "done"]
  /\ UNCHANGED <<uriDefined, globalMongoose, objCount, attempt, connectCalls,
                 cached, libLoad, libLoads, catt, cobj, cmod,
                 routeVars, storeVars, bookVars>>

\* what a call of `async function connectDB()` hands back: a promise object
\* of the call's own, told apart by the caller whose call it is, that
\* settles as the promise the call awaits does
ReturnedPromise(c) == [call |-> c, awaits |-> catt[c]]

\* the caller has consumed the outcome and may call again
ConnectDBRelease(c) ==
  /\ cpc[c] = "done"
  /\ cpc' = [cpc EXCEPT ![c] = "idle"]
  /\ catt' = [catt EXCEPT ![c] = NoPromise]
  /\ cobj' = [cobj EXCEPT ![c] = 0]
  /\ cmod' = [cmod EXCEPT ![c] = 0]
  /\ cres' = [cres EXCEPT ![c] = NoResult]
  /\ UNCHANGED <<connVars, cached, libLoad, libLoads,
                 routeVars, storeVars, bookVars>>

(* ------------------------------ strings -------------------------------- *)

\* a string is a sequence of one-character strings
LowerLetters == {"a", "b", "c", "d", "e", "f", "g", "h", "i", "j", "k", "l", "m",
                 "n", "o", "p", "q", "r", "s", "t", "u", "v", "w", "x", "y", "z"}
Digits == {"0", "1", "2", "3", "4", "5", "6", "7", "8", "9"}
Whitespace == {" "}

UpperLetters == <<"A", "B", "C", "D", "E", "F", "G", "H", "I", "J", "K", "L", "M",
                  "N", "O", "P", "Q", "R", "S", "T", "U", "V", "W", "X", "Y", "Z">>
LowerOfUpper == <<"a", "b", "c", "d", "e", "f", "g", "h", "i", "j", "k", "l", "m",
                  "n", "o", "p", "q", "r", "s", "t", "u", "v", "w", "x", "y", "z">>

LowerChar(ch) ==
  IF \E i \in 1..Len(UpperLetters) : UpperLetters[i] = ch
  THEN LowerOfUpper[CHOOSE i \in 1..Len(UpperLetters) : UpperLetters[i] = ch]
  ELSE ch

\* `lowercase: true`
ToLowerCase(s) == [i \in 1..Len(s) |-> LowerChar(s[i])]

\* `trim: true`: leading and trailing whitespace removed
Trim(s) ==
  LET keep == {i \in 1..Len(s) : s[i] \notin Whitespace} IN
  IF keep = {} THEN <<>>
  ELSE LET first == CHOOSE i \in keep : \A j \in keep : i <= j
           last == CHOOSE i \in keep : \A j \in keep : j <= i
       IN SubSeq(s, first, last)

\* a value of type `string | undefined`
Absent == [present |-> FALSE, value |-> <<>>]
Str(s) == [present |-> TRUE, value |-> s]

(* ----------------------- the Event collection -------------------------- *)

EventIds == 1..MaxEvents
EventSlugs == {<<"a">>, <<"b">>}

StoredEventIds == {e.id : e \in eventStore}

FindAny(store, slug) == store

\* Event.findOne({ slug }): the stored documents with that slug
FindBySlug(store, slug) == {e \in store : e.slug = slug}

NoEventResult == [title |-> <<>>, outcome |-> "none"]

AlnumChars == LowerLetters \cup Digits

\* every character outside a-z0-9 becomes a hyphen
Hyphenate(s) ==
  [i \in 1..Len(s) |-> IF s[i] \in AlnumChars THEN s[i] ELSE "-"]

\* a run of hyphens becomes one hyphen
RECURSIVE CollapseHyphens(_)
CollapseHyphens(s) ==
  IF Len(s) <= 1 THEN s
  ELSE IF s[1] = "-" /\ s[2] = "-" THEN CollapseHyphens(Tail(s))
  ELSE <<s[1]>> \o CollapseHyphens(Tail(s))

\* one leading and one trailing hyphen removed
StripHyphens(s) ==
  LET a == IF s # <<>> /\ s[1] = "-" THEN Tail(s) ELSE s IN
  IF a # <<>> /\ a[Len(a)] = "-" THEN SubSeq(a, 1, Len(a) - 1) ELSE a

SlugifyStripFirst(title) ==
  CollapseHyphens(StripHyphens(Hyphenate(ToLowerCase(title))))

\* slug derivation: lowercase, runs of characters outside a-z0-9 replaced by
\* one hyphen, leading and trailing hyphens removed
Slugify(title) ==
  StripHyphens(CollapseHyphens(Hyphenate(ToLowerCase(title))))

\* the fields other than the title that Event.create is given, told apart by
\* the Event they are given for
FieldValue(name, id) == <<name, id>>

\* the document Event.create builds: title trimmed, slug derived from the
\* title, timestamps added
EventDocument(id, title) ==
  [id |-> id,
   title |-> Trim(title),
   slug |-> Slugify(Trim(title)),
   image |-> FieldValue("image", id),
   location |-> FieldValue("location", id),
   date |-> FieldValue("date", id),
   time |-> FieldValue("time", id),
   createdAt |-> FieldValue("createdAt", id)]

AdmitsAnySlug(store, slug) == TRUE

\* the unique index on slug: `slug: { unique: true }`
SlugIndexAdmits(store, slug) == FindBySlug(store, slug) = {}

\* Event.create(fields): title and slug are required non-empty strings; the
\* unique index on slug rejects a duplicate with a duplicate-key error; the
\* store issues a fresh identifier, at most `cap` of them
EventCreateTitled(cap, title) ==
  /\ LET doc == EventDocument(eventCount + 1, title) IN
     IF doc.title = <<>> \/ doc.slug = <<>>
     THEN /\ eventRes' = [title |-> title, outcome |-> "validation_error"]
          /\ UNCHANGED <<eventStore, eventCount>>
     ELSE IF ~SlugIndexAdmits(eventStore, doc.slug)
     THEN /\ eventRes' = [title |-> title, outcome |-> "duplicate_key"]
          /\ UNCHANGED <<eventStore, eventCount>>
     ELSE /\ eventCount < cap
          /\ eventCount' = eventCount + 1
          /\ eventStore' = eventStore \cup {doc}
          /\ eventRes' = [title |-> title, outcome |-> "created"]
  /\ UNCHANGED <<connVars, libVars, routeVars, bookVars>>

\* a create that succeeds: an Event whose title is the slug itself
EventCreateUnder(cap, slug) ==
  /\ eventCount < cap
  /\ FindBySlug(eventStore, slug) = {}
  /\ EventCreateTitled(cap, slug)

EventCreate(slug) == EventCreateUnder(MaxEvents, slug)

CascadeToBookings(coll, id) == {b \in coll : b.eventId # id}

\* what the removal of an Event makes of the Booking collection: explicit
\* removal does not cascade
BookingsAfterEventDelete(coll, id) == coll

\* Event.findByIdAndDelete(id): removes the Event and nothing else
EventDelete(id) ==
  /\ id \in StoredEventIds
  /\ eventStore' = {e \in eventStore : e.id # id}
  /\ bookings' = BookingsAfterEventDelete(bookings, id)
  /\ UNCHANGED <<eventCount, eventRes, connVars, libVars, routeVars,
                 bookingCount, wpc,
                 wdoc, wres, wlive0>>

(* ------------------- route.ts: dbConnect and GET ----------------------- *)

NoData == [image |-> <<>>, title |-> <<>>, slug |-> <<>>, location |-> <<>>,
           date |-> <<>>, time |-> <<>>]
NoResponse == [status |-> 0, code |-> "", message |-> "", data |-> NoData]

\* the message each error response carries
MessageOf(code) ==
  CASE code = "MISSING_SLUG" -> "Parameter 'slug' is required."
    [] code = "INVALID_SLUG" ->
         "Parameter 'slug' must be a lowercase slug (a-z, 0-9, -)."
    [] code = "NOT_FOUND" -> "Event not found."
    [] code = "INTERNAL_SERVER_ERROR" -> "An unexpected error occurred."

ErrorResponse(status, code) ==
  [status |-> status, code |-> code, message |-> MessageOf(code), data |-> NoData]

SlugNeverMissing(slug) == FALSE

\* `if (!slug)`: undefined and the empty string are falsy
SlugMissing(slug) == ~slug.present \/ slug.value = <<>>

MaxSlugLen == 100
SlugChars == LowerLetters \cup Digits \cup {"-"}

AcceptsAnySlug(slug) == TRUE

\* typeof value === "string" && /^[a-z0-9-]{1,100}$/.test(value)
isValidSlug(slug) ==
  /\ slug.present
  /\ Len(slug.value) >= 1
  /\ Len(slug.value) <= MaxSlugLen
  /\ \A i \in 1..Len(slug.value) : slug.value[i] \in SlugChars

UriNeverMissing(defined) == FALSE

\* dbConnect: `if (!MONGODB_URI)`
UriMissing(defined) == ~defined

WholeDocument(doc) == doc

\* String(value) of a string
String(value) == value

\* the EventPublic projection of a stored document
EventPublic(doc) ==
  [image |-> String(doc.image), title |-> String(doc.title),
   slug |-> String(doc.slug), location |-> String(doc.location),
   date |-> String(doc.date), time |-> String(doc.time)]

\* module initialisation of route.ts: creates the global cache if missing
RouteLoad ==
  /\ ~routeLoaded
  /\ routeLoaded' = TRUE
  /\ IF globalMongoose = Undefined
     THEN /\ objCount + 1 \in Objs
          /\ objCount' = objCount + 1
          /\ globalMongoose' = objCount + 1
     ELSE UNCHANGED <<objCount, globalMongoose>>
  /\ UNCHANGED <<uriDefined, cacheConn, cachePromise, attempt, connectCalls,
                 libVars, gpc, gslug, gatt, gresp, glog, storeVars, bookVars>>

\* `return NextResponse.json(...)` of the try block
Respond(g, resp) ==
  /\ gpc' = [gpc EXCEPT ![g] = "done"]
  /\ gresp' = [gresp EXCEPT ![g] = resp]
  /\ UNCHANGED glog

CatchLeakingDetail(g, err) ==
  /\ gpc' = [gpc EXCEPT ![g] = "done"]
  /\ gresp' = [gresp EXCEPT ![g] =
                 [status |-> 500, code |-> "INTERNAL_SERVER_ERROR",
                  message |-> err, data |-> NoData]]
  /\ glog' = [glog EXCEPT ![g] = err]

CatchAsNotFound(g, err) ==
  /\ gpc' = [gpc EXCEPT ![g] = "done"]
  /\ gresp' = [gresp EXCEPT ![g] = ErrorResponse(404, "NOT_FOUND")]
  /\ glog' = [glog EXCEPT ![g] = err]

\* the catch block: the exception is logged, the response is a fixed 500
Catch(g, err) ==
  /\ gpc' = [gpc EXCEPT ![g] = "done"]
  /\ gresp' = [gresp EXCEPT ![g] = ErrorResponse(500, "INTERNAL_SERVER_ERROR")]
  /\ glog' = [glog EXCEPT ![g] = err]

\* GET up to its first await: the slug checks, then dbConnect() up to its
\* await; an exception of dbConnect is caught by GET and answered with 500
GETCall(g, slug) ==
  /\ gpc[g] = "idle"
  /\ routeLoaded
  /\ gslug' = [gslug EXCEPT ![g] = slug]
  /\ LET cache == globalMongoose IN
     IF SlugMissing(slug)
     THEN /\ Respond(g, ErrorResponse(400, "MISSING_SLUG"))
          /\ UNCHANGED <<gatt, cachePromise, attempt, connectCalls>>
     ELSE IF ~isValidSlug(slug)
     THEN /\ Respond(g, ErrorResponse(400, "INVALID_SLUG"))
          /\ UNCHANGED <<gatt, cachePromise, attempt, connectCalls>>
     ELSE IF UriMissing(uriDefined)
     THEN /\ Catch(g, ConfigError)
          /\ UNCHANGED <<gatt, cachePromise, attempt, connectCalls>>
     ELSE IF cacheConn[cache] # NoConn
     THEN /\ gpc' = [gpc EXCEPT ![g] = "query"]
          /\ UNCHANGED <<gresp, glog, gatt, cachePromise, attempt, connectCalls>>
     ELSE /\ IF cachePromise[cache] = NoPromise
             THEN /\ connectCalls < MaxAttempts
                  /\ connectCalls' = connectCalls + 1
                  /\ attempt' = [attempt EXCEPT ![connectCalls + 1] = "pending"]
                  /\ cachePromise' = [cachePromise EXCEPT
                                        ![cache] = connectCalls + 1]
             ELSE UNCHANGED <<connectCalls, attempt, cachePromise>>
          /\ gpc' = [gpc EXCEPT ![g] = "connect"]
          /\ gatt' = [gatt EXCEPT ![g] = cachePromise'[cache]]
          /\ UNCHANGED <<gresp, glog>>
  /\ UNCHANGED <<uriDefined, globalMongoose, cacheConn, objCount, libVars,
                 routeLoaded, storeVars, bookVars>>

\* dbConnect() after its await: `cache.conn = await cache.promise`; a
\* rejection propagates to GET's catch block, the cache is left as it is
GETConnected(g) ==
  /\ gpc[g] = "connect"
  /\ Settled(attempt[gatt[g]])
  /\ IF attempt[gatt[g]] = "ok"
     THEN /\ cacheConn' = [cacheConn EXCEPT ![globalMongoose] = Mongoose]
          /\ gpc' = [gpc EXCEPT ![g] = "query"]
          /\ UNCHANGED <<gresp, glog>>
     ELSE /\ Catch(g, ConnectionError)
          /\ UNCHANGED cacheConn
  /\ UNCHANGED <<uriDefined, globalMongoose, cachePromise, objCount, attempt,
                 connectCalls, libVars, routeLoaded, gslug, gatt, storeVars,
                 bookVars>>

\* Event.findOne({ slug }).lean().exec() completes: it fails, finds nothing,
\* or finds the document
GETQuery(g, queryOk) ==
  /\ gpc[g] = "query"
  /\ LET docs == FindBySlug(eventStore, gslug[g].value) IN
     IF ~queryOk
     THEN \E err \in QueryErrors : Catch(g, err)
     ELSE IF docs = {}
     THEN Respond(g, ErrorResponse(404, "NOT_FOUND"))
     ELSE \E doc \in docs :
            Respond(g, [status |-> 200, code |-> "", message |-> "",
                        data |-> EventPublic(doc)])
  /\ UNCHANGED <<connVars, libVars, routeLoaded, gslug, gatt, storeVars,
                 bookVars>>

\* the response has been delivered; the next request may come in
GETRelease(g) ==
  /\ gpc[g] = "done"
  /\ gpc' = [gpc EXCEPT ![g] = "idle"]
  /\ gslug' = [gslug EXCEPT ![g] = Absent]
  /\ gatt' = [gatt EXCEPT ![g] = NoPromise]
  /\ gresp' = [gresp EXCEPT ![g] = NoResponse]
  /\ glog' = [glog EXCEPT ![g] = NoResult]
  /\ UNCHANGED <<connVars, libVars, routeLoaded, storeVars, bookVars>>

\* 'a'.repeat(n)
Repeat(ch, n) == [i \in 1..n |-> ch]

SlugInputs == {Absent, Str(<<>>), Str(<<"a">>), Str(<<"b">>), Str(<<"A">>)}

(* --------------------- the Booking schema and save --------------------- *)

LowerCaseOnly(s) == ToLowerCase(s)

\* the setters of the email path, applied when the field is assigned
NormalizeEmail(s) == ToLowerCase(Trim(s))

\* /^[^\s@]+@[^\s@]+\.[^\s@]+$/.test(value)
EmailRegexTest(s) ==
  \E a \in 1..Len(s), d \in 1..Len(s) :
    /\ s[a] = "@"
    /\ s[d] = "."
    /\ 1 < a
    /\ a + 1 < d
    /\ d < Len(s)
    /\ \A i \in 1..Len(s) : i # a => s[i] \notin (Whitespace \cup {"@"})

\* an identifier no Event has: a fresh ObjectId made by the caller
FakeId == MaxEvents + MaxSeqEvents + 1
\* eventId missing or null
NoId == 0

RefersToAnyEvent(store, id) == TRUE

\* `Event.findById(value)` gives a document: `event !== null`
RefersToStoredEvent(store, id) == \E e \in store : e.id = id

\* paths mongoose validates on save: required paths and modified paths
PathValidated(required, modified, isNew) == required \/ modified \/ isNew

\* the validators of the eventId path: required, then the validator function
EventIdValid(store, doc) ==
  PathValidated(TRUE, doc.modEventId, doc.isNew)
    => (doc.eventId # NoId /\ RefersToStoredEvent(store, doc.eventId))

EmailUnchecked(doc) == TRUE

\* the validators of the email path: required, then the validator function
EmailValid(doc) ==
  PathValidated(TRUE, doc.modEmail, doc.isNew)
    => (doc.email # <<>> /\ EmailRegexTest(doc.email))

\* pre('save'): `booking.isModified('eventId') || booking.isNew`
HookChecksEvent(doc) == doc.modEventId \/ doc.isNew

StoredBooking(doc) == [id |-> doc.id, eventId |-> doc.eventId, email |-> doc.email]

\* the identifiers a caller can put in eventId
EventIdInputs == (1..eventCount) \cup {FakeId, NoId}

EmailInputs == {<<" ", "B", "@", "b", ".", "c">>, <<"a", "@", "b">>}

\* Booking.create(data): a new document, the setters applied, then save();
\* at most `cap` identifiers are issued
BookingCreateUnder(cap, w, eventId, email) ==
  /\ wpc[w] = "idle"
  /\ bookingCount < cap
  /\ bookingCount' = bookingCount + 1
  /\ wdoc' = [wdoc EXCEPT ![w] =
                [id |-> bookingCount + 1, eventId |-> eventId,
                 email |-> NormalizeEmail(email), given |-> email,
                 isNew |-> TRUE, modEventId |-> TRUE, modEmail |-> TRUE]]
  /\ wlive0' = [wlive0 EXCEPT ![w] = eventId \in StoredEventIds]
  /\ wpc' = [wpc EXCEPT ![w] = "validate"]
  /\ UNCHANGED <<connVars, libVars, routeVars, storeVars, bookings, wres>>

BookingCreate(w, eventId, email) ==
  BookingCreateUnder(MaxBookings, w, eventId, email)

\* a stored Booking is loaded, fields are assigned, then save()
BookingUpdate(w, b, eventId, email) ==
  /\ wpc[w] = "idle"
  /\ b \in bookings
  /\ wdoc' = [wdoc EXCEPT ![w] =
                [id |-> b.id, eventId |-> eventId,
                 email |-> NormalizeEmail(email), given |-> email,
                 isNew |-> FALSE,
                 modEventId |-> eventId # b.eventId,
                 modEmail |-> NormalizeEmail(email) # b.email]]
  /\ wlive0' = [wlive0 EXCEPT ![w] = eventId \in StoredEventIds]
  /\ wpc' = [wpc EXCEPT ![w] = "validate"]
  /\ UNCHANGED <<connVars, libVars, routeVars, storeVars, bookings,
                 bookingCount, wres>>

Finish(w, outcome) ==
  /\ wpc' = [wpc EXCEPT ![w] = "done"]
  /\ wres' = [wres EXCEPT ![w] = outcome]

\* save(): validation, with the lookup of the eventId validator
SaveValidate(w) ==
  /\ wpc[w] = "validate"
  /\ IF EventIdValid(eventStore, wdoc[w]) /\ EmailValid(wdoc[w])
     THEN /\ wpc' = [wpc EXCEPT ![w] = "hook"]
          /\ UNCHANGED wres
     ELSE Finish(w, "validation_error")
  /\ UNCHANGED <<connVars, libVars, routeVars, storeVars, bookings,
                 bookingCount, wdoc, wlive0>>

\* save(): the pre('save') hook, with its lookup
SaveHook(w) ==
  /\ wpc[w] = "hook"
  /\ IF HookChecksEvent(wdoc[w])
        /\ ~RefersToStoredEvent(eventStore, wdoc[w].eventId)
     THEN Finish(w, "hook_error")
     ELSE /\ wpc' = [wpc EXCEPT ![w] = "write"]
          /\ UNCHANGED wres
  /\ UNCHANGED <<connVars, libVars, routeVars, storeVars, bookings,
                 bookingCount, wdoc, wlive0>>

UnchangedBooking(b, doc) == b

\* updateOne with $set of the modified paths of the document
UpdatedBooking(b, doc) ==
  [id |-> b.id,
   eventId |-> IF doc.modEventId THEN doc.eventId ELSE b.eventId,
   email |-> IF doc.modEmail THEN doc.email ELSE b.email]

UniqueIndexAdmits(coll, b) ==
  \A c \in coll : ~(c.eventId = b.eventId /\ c.email = b.email)

\* `BookingSchema.index({ eventId: 1 })`: not unique, it admits every document
IndexAdmits(coll, b) == TRUE

\* save(): the insert, or the update of the modified paths
SaveWrite(w) ==
  /\ wpc[w] = "write"
  /\ LET doc == wdoc[w] IN
     IF doc.isNew /\ ~IndexAdmits(bookings, StoredBooking(doc))
     THEN /\ Finish(w, "duplicate_key")
          /\ UNCHANGED bookings
     ELSE /\ bookings' =
               IF doc.isNew THEN bookings \cup {StoredBooking(doc)}
               ELSE {IF b.id = doc.id THEN UpdatedBooking(b, doc) ELSE b :
                       b \in bookings}
          /\ Finish(w, "saved")
  /\ UNCHANGED <<connVars, libVars, routeVars, storeVars, bookingCount, wdoc,
                 wlive0>>

\* the caller has consumed the outcome of save()
SaveRelease(w) ==
  /\ wpc[w] = "done"
  /\ wpc' = [wpc EXCEPT ![w] = "idle"]
  /\ wdoc' = [wdoc EXCEPT ![w] = NoDoc]
  /\ wres' = [wres EXCEPT ![w] = NoResult]
  /\ wlive0' = [wlive0 EXCEPT ![w] = FALSE]
  /\ UNCHANGED <<connVars, libVars, routeVars, storeVars, bookings,
                 bookingCount>>

(* --------------------------- the driver -------------------------------- *)

\* the promise of a mongoose.connect call settles
ConnectSettle(p, ok) ==
  /\ attempt[p] = "pending"
  /\ attempt' = [attempt EXCEPT ![p] = IF ok THEN "ok" ELSE "failed"]
  /\ UNCHANGED <<uriDefined, globalMongoose, cacheConn, cachePromise, objCount,
                 connectCalls, libVars, routeVars, storeVars, bookVars>>

(* -------------------------- specifications ----------------------------- *)

Init ==
  /\ uriDefined \in BOOLEAN
  /\ globalMongoose = Undefined
  /\ cacheConn = [o \in Objs |-> NoConn]
  /\ cachePromise = [o \in Objs |-> NoPromise]
  /\ objCount = 0
  /\ attempt = [p \in Attempts |-> "none"]
  /\ connectCalls = 0
  /\ cached = 0
  /\ libLoad = "none"
  /\ libLoads = 0
  /\ cpc = [c \in Callers |-> "idle"]
  /\ catt = [c \in Callers |-> NoPromise]
  /\ cobj = [c \in Callers |-> 0]
  /\ cmod = [c \in Callers |-> 0]
  /\ cres = [c \in Callers |-> NoResult]
  /\ routeLoaded = FALSE
  /\ gpc = [g \in Requests |-> "idle"]
  /\ gslug = [g \in Requests |-> Absent]
  /\ gatt = [g \in Requests |-> NoPromise]
  /\ gresp = [g \in Requests |-> NoResponse]
  /\ glog = [g \in Requests |-> NoResult]
  /\ eventStore = {}
  /\ eventCount = 0
  /\ eventRes = NoEventResult
  /\ bookings = {}
  /\ bookingCount = 0
  /\ wpc = [w \in Writers |-> "idle"]
  /\ wdoc = [w \in Writers |-> NoDoc]
  /\ wres = [w \in Writers |-> NoResult]
  /\ wlive0 = [w \in Writers |-> FALSE]

NextConn ==
  \/ LibLoad
  \/ \E c \in Callers : ConnectDBCall(c)
  \/ \E c \in Callers : ConnectDBResume(c)
  \/ \E c \in Callers : ConnectDBRelease(c)
  \/ \E p \in Attempts, ok \in BOOLEAN : ConnectSettle(p, ok)

SpecConn == Init /\ [][NextConn]_vars

NextRoute ==
  \/ RouteLoad
  \/ \E g \in Requests, slug \in SlugInputs : GETCall(g, slug)
  \/ \E g \in Requests : GETConnected(g)
  \/ \E g \in Requests, queryOk \in BOOLEAN : GETQuery(g, queryOk)
  \/ \E g \in Requests : GETRelease(g)
  \/ \E p \in Attempts, ok \in BOOLEAN : ConnectSettle(p, ok)
  \/ \E slug \in EventSlugs : EventCreate(slug)
  \/ \E id \in EventIds : EventDelete(id)

SpecRoute == Init /\ [][NextRoute]_vars

\* the process as a whole: both modules work on global.mongoose; one
\* caller of connectDB and one request, each repeating
AppCallers == {c \in Callers : \A d \in Callers : c <= d}
AppRequests == {g \in Requests : \A h \in Requests : g <= h}

NextApp ==
  \/ LibLoad
  \/ \E c \in AppCallers : ConnectDBCall(c)
  \/ \E c \in AppCallers : ConnectDBResume(c)
  \/ \E c \in AppCallers : ConnectDBRelease(c)
  \/ RouteLoad
  \/ \E g \in AppRequests, slug \in SlugInputs : GETCall(g, slug)
  \/ \E g \in AppRequests : GETConnected(g)
  \/ \E g \in AppRequests, queryOk \in BOOLEAN : GETQuery(g, queryOk)
  \/ \E g \in AppRequests : GETRelease(g)
  \/ \E p \in Attempts, ok \in BOOLEAN : ConnectSettle(p, ok)

SpecApp == Init /\ [][NextApp]_vars

NextBooking ==
  \/ \E slug \in EventSlugs : EventCreate(slug)
  \/ \E id \in EventIds : EventDelete(id)
  \/ \E w \in Writers, id \in EventIdInputs, email \in EmailInputs :
       BookingCreate(w, id, email)
  \/ \E w \in Writers, b \in bookings, id \in EventIdInputs,
        email \in EmailInputs : BookingUpdate(w, b, id, email)
  \/ \E w \in Writers : SaveValidate(w)
  \/ \E w \in Writers : SaveHook(w)
  \/ \E w \in Writers : SaveWrite(w)
  \/ \E w \in Writers : SaveRelease(w)

\* the store is reached through a configured connection
InitBooking == Init /\ uriDefined

SpecBooking == InitBooking /\ [][NextBooking]_vars

\* one client whose writes follow one another, with Events created and
\* deleted in between
SeqWriters == {w \in Writers : \A v \in Writers : w <= v}
SeqEventIds == 1..MaxSeqEvents
SeqEmailInputs == {<<"a", "@", "b", ".", "c">>, <<" ", "B", "@", "b", ".", "c">>}
\* the identifiers issued so far, stored or deleted, and one never issued
SeqEventIdInputs == (1..eventCount) \cup {FakeId}

NextBookingSeq ==
  \/ \E slug \in EventSlugs : EventCreateUnder(MaxSeqEvents, slug)
  \/ \E id \in SeqEventIds : EventDelete(id)
  \/ \E w \in SeqWriters, id \in SeqEventIdInputs, email \in SeqEmailInputs :
       BookingCreateUnder(MaxSeqBookings, w, id, email)
  \/ \E w \in SeqWriters, b \in bookings, id \in SeqEventIdInputs,
        email \in SeqEmailInputs : BookingUpdate(w, b, id, email)
  \/ \E w \in SeqWriters : SaveValidate(w)
  \/ \E w \in SeqWriters : SaveHook(w)
  \/ \E w \in SeqWriters : SaveWrite(w)
  \/ \E w \in SeqWriters : SaveRelease(w)

SpecBookingSeq == InitBooking /\ [][NextBookingSeq]_vars

\* every string over a small alphabet is given as the email of a new
\* Booking for a stored Event, each against an empty Booking collection
EmailAlphabet == {"B", " ", "@", "."}
AllEmailInputs == UNION {[1..n -> EmailAlphabet] : n \in 0..MaxEmailLen}

NextEmail ==
  \/ \E slug \in EventSlugs : EventCreate(slug)
  \/ \E w \in SeqWriters :
       /\ wpc[w] = "idle"
       /\ bookings = {}
       /\ \E id \in StoredEventIds, email \in AllEmailInputs :
            BookingCreate(w, id, email)
  \/ \E w \in SeqWriters : SaveValidate(w)
  \/ \E w \in SeqWriters : SaveHook(w)
  \/ \E w \in SeqWriters : SaveWrite(w)
  \/ \E w \in SeqWriters : SaveRelease(w)

SpecEmail == InitBooking /\ [][NextEmail]_vars

\* one request after the other, its slug any short string over a small
\* alphabet or a string around the length limit
SlugAlphabet == {"a", "0", "-", "A", " ", "@"}
ShortSlugs == UNION {[1..n -> SlugAlphabet] : n \in 0..MaxShortSlug}
LongSlugs == {Repeat("a", MaxSlugLen - 1), Repeat("a", MaxSlugLen),
              Repeat("a", MaxSlugLen + 1),
              Repeat("a", MaxSlugLen - 1) \o <<"A">>}
AllSlugInputs == {Absent} \cup {Str(v) : v \in ShortSlugs \cup LongSlugs}

NextSlug ==
  \/ RouteLoad
  \/ \E g \in AppRequests :
       gpc[g] = "idle" /\ \E slug \in AllSlugInputs : GETCall(g, slug)
  \/ \E g \in AppRequests : GETConnected(g)
  \/ \E g \in AppRequests, queryOk \in BOOLEAN : GETQuery(g, queryOk)
  \/ \E g \in AppRequests : GETRelease(g)
  \/ \E p \in Attempts, ok \in BOOLEAN : ConnectSettle(p, ok)
  \/ \E slug \in EventSlugs : EventCreate(slug)
  \/ \E id \in EventIds : EventDelete(id)

SpecSlug == Init /\ [][NextSlug]_vars

\* slug generation over every title of up to MaxTitleLen characters, one
\* Event stored at a time
TitleAlphabet == {"a", "A", " ", "-"}
AllTitles == UNION {[1..n -> TitleAlphabet] : n \in 0..MaxTitleLen}

NextTitle ==
  \/ eventStore = {} /\ \E title \in AllTitles : EventCreateTitled(MaxEvents, title)
  \/ \E id \in EventIds : EventDelete(id)

SpecTitle == Init /\ [][NextTitle]_vars

\* Events created and deleted one after the other under titles that differ
\* in case, whitespace and punctuation
EventTitles == {<<"a">>, <<"A">>, <<" ", "a">>, <<"a", "-">>, <<"b">>, <<"-">>}

NextEvent ==
  \/ \E title \in EventTitles : EventCreateTitled(MaxSeqEvents, title)
  \/ \E id \in SeqEventIds : EventDelete(id)

SpecEvent == Init /\ [][NextEvent]_vars

FairSpecConn ==
  /\ SpecConn
  /\ \A c \in Callers : WF_vars(ConnectDBResume(c))

\* the process as a whole where every connect attempt settles, every query
\* completes and the continuations of settled awaits are run
FairSpecApp ==
  /\ SpecApp
  /\ \A p \in Attempts : WF_vars(\E ok \in BOOLEAN : ConnectSettle(p, ok))
  /\ \A c \in AppCallers : WF_vars(ConnectDBResume(c))
  /\ \A g \in AppRequests : WF_vars(GETConnected(g))
  /\ \A g \in AppRequests : WF_vars(\E queryOk \in BOOLEAN : GETQuery(g, queryOk))

(* ------------------- claims on the connection accessor ----------------- *)

InFlight == {p \in Attempts : attempt[p] = "pending"}

\* a caller takes the step of connectDB() that precedes its await
Calls(c) == cpc[c] = "idle" /\ cpc'[c] # "idle"

\* a caller takes the step of connectDB() that follows its await
Resumes(c) == cpc[c] = "await" /\ cpc'[c] = "done"

\* C1: as long as the first connect attempt is not settled, one connect
\* call has been made however many callers have called, all of them await
\* that attempt, and every caller that awaited it gets the same handle once
\* it has succeeded.
C1_OneAttemptSharedHandle ==
  /\ attempt[1] = "pending" =>
       /\ connectCalls = 1
       /\ \A c \in Callers : cpc[c] = "await" => catt[c] = 1
  /\ \A c \in Callers :
       (cpc[c] = "done" /\ catt[c] = 1 /\ attempt[1] = "ok") => cres[c] = Mongoose

C1_Witness ==
  /\ connectCalls = 1
  /\ attempt[1] = "ok"
  /\ \A c \in Callers : cpc[c] = "done" /\ catt[c] = 1 /\ cres[c] = Mongoose

C3_FailurePropagates ==
  /\ [][\A c \in Callers :
          (Resumes(c) /\ attempt[catt[c]] = "failed")
            => /\ cres'[c] = ConnectionError
               /\ connectCalls' = connectCalls
               /\ attempt' = attempt
       ]_vars
  /\ \A c \in Callers :
       (cpc[c] = "await" /\ attempt[catt[c]] = "failed")
         ~> (cpc[c] = "done" /\ cres[c] = ConnectionError)

C3_Witness ==
  /\ connectCalls = 1
  /\ attempt[1] = "failed"
  /\ \A c \in Callers :
       cpc[c] = "done" /\ catt[c] = 1 /\ cres[c] = ConnectionError

C7_AtMostOneInFlight == Cardinality(InFlight) <= 1

\* C8: a cached handle is never cleared or replaced, by calls or by module
\* re-initialisation; the module's cache is the global cache, and a
\* re-initialisation that finds a handle in the global cache keeps it and
\* makes no connect call.
C8_CachePersists ==
  /\ [][\A o \in Objs : cacheConn[o] # NoConn => cacheConn'[o] = cacheConn[o]]_vars
  /\ [](libLoad = "ok" => cached = globalMongoose)
  /\ [][(libLoads' # libLoads /\ globalMongoose # Undefined
           /\ cacheConn[globalMongoose] # NoConn)
          => /\ cached' = globalMongoose
             /\ globalMongoose' = globalMongoose
             /\ cacheConn'[cached'] = cacheConn[globalMongoose]
             /\ connectCalls' = connectCalls
       ]_vars

C8_Witness ==
  /\ libLoads = 2
  /\ connectCalls = 1
  /\ cacheConn[cached] = Mongoose
  /\ \E c \in Callers : cpc[c] = "done" /\ cmod[c] = 1 /\ catt[c] = 1
  /\ \E c \in Callers :
       cpc[c] = "done" /\ cmod[c] = 2 /\ catt[c] = NoPromise /\ cres[c] = Mongoose

\* C26: two connectDB() calls made before the first connect attempt is
\* settled hand back the very same promise object, and one connect call has
\* been made.
C26_SamePromiseObject ==
  \A c \in Callers, d \in Callers :
    (cpc[c] = "await" /\ cpc[d] = "await" /\ attempt[1] = "pending")
      => /\ ReturnedPromise(c) = ReturnedPromise(d)
         /\ connectCalls = 1

(* ------------------------ claims on the route -------------------------- *)

\* a connectDB() call that finds no handle, made while no other call waits,
\* starts a connect attempt and awaits it
ConnectDBStartsAttempt ==
  \A c \in Callers :
    (Calls(c) /\ cpc'[c] = "await" /\ \A d \in Callers : cpc[d] # "await")
      => (connectCalls' = connectCalls + 1 /\ catt'[c] = connectCalls')

\* the same of a dbConnect() call made by GET
DbConnectStartsAttempt ==
  \A g \in Requests :
    (gpc[g] = "idle" /\ gpc'[g] = "connect"
       /\ \A h \in Requests : gpc[h] # "connect")
      => (connectCalls' = connectCalls + 1 /\ gatt'[g] = connectCalls')

\* C28: dbConnect of the route and connectDB of lib/mongodb cannot be told
\* apart by their calls and outcomes: each of them, called when no handle is
\* cached and no other call waits, makes a connect attempt of its own, after
\* a failed attempt as well.
C28_AccessorsEquivalent ==
  /\ [][ConnectDBStartsAttempt]_vars
  /\ [][DbConnectStartsAttempt]_vars

\* C5: when a GET has answered 500 because its connect attempt failed, the
\* in-flight slot of the cache no longer holds that attempt.
C5_RouteClearsFailedAttempt ==
  \A g \in Requests :
    (gpc[g] = "done" /\ gresp[g].status = 500 /\ glog[g] = ConnectionError)
      => cachePromise[globalMongoose] # gatt[g]

\* C6: without a connection string every require of lib/mongodb throws, no
\* connectDB call can be made, every GET that reaches dbConnect ends in the
\* configuration error, no connect call is made and no cache holds a handle
\* or a promise.
C6_NoUriNoConnect ==
  ~uriDefined =>
    /\ connectCalls = 0
    /\ \A p \in Attempts : attempt[p] = "none"
    /\ \A o \in Objs : cacheConn[o] = NoConn /\ cachePromise[o] = NoPromise
    /\ libLoad # "ok"
    /\ libLoads > 0 => libLoad = "threw"
    /\ cached = 0
    /\ \A c \in Callers : cpc[c] = "idle"
    /\ \A g \in Requests :
         /\ gpc[g] \in {"idle", "done"}
         /\ (gpc[g] = "done" /\ isValidSlug(gslug[g]))
              => (glog[g] = ConfigError /\ gresp[g].status = 500)

C6_Witness ==
  /\ ~uriDefined
  /\ libLoads = MaxLoads
  /\ libLoad = "threw"
  /\ routeLoaded
  /\ \E g \in Requests : gpc[g] = "done" /\ glog[g] = ConfigError

\* C17: a GET whose slug is absent is answered at once with 400
\* MISSING_SLUG and logs nothing; its step leaves the connection cache, the
\* connect attempts and the store as they are, whatever they hold.
C17_AbsentSlug ==
  /\ [](\A g \in Requests :
          (gpc[g] # "idle" /\ ~gslug[g].present)
            => /\ gpc[g] = "done"
               /\ gresp[g] = ErrorResponse(400, "MISSING_SLUG")
               /\ glog[g] = NoResult)
  /\ [][\A g \in Requests :
          (gpc[g] = "idle" /\ gpc'[g] # "idle" /\ ~gslug'[g].present)
            => UNCHANGED <<connVars, storeVars>>]_vars

C17_Witness ==
  /\ globalMongoose # Undefined
  /\ cacheConn[globalMongoose] = Mongoose
  /\ eventStore # {}
  /\ \E g \in Requests :
       /\ gpc[g] = "done"
       /\ ~gslug[g].present
       /\ gresp[g] = ErrorResponse(400, "MISSING_SLUG")

\* 1 to 100 characters, each a lowercase letter, a digit or a hyphen
SlugWellFormed(v) ==
  /\ Len(v) >= 1
  /\ Len(v) <= 100
  /\ \A i \in 1..Len(v) : v[i] \in LowerLetters \cup Digits \cup {"-"}

\* C18: a GET whose slug is present and not well-formed is answered with 400
\* INVALID_SLUG; one whose slug is well-formed, 100 characters included, is
\* not answered with INVALID_SLUG.
C18_InvalidSlugRejected ==
  \A g \in Requests :
    (gpc[g] = "done" /\ gslug[g].present) =>
      IF SlugWellFormed(gslug[g].value)
      THEN gresp[g].code # "INVALID_SLUG"
      ELSE gresp[g] = ErrorResponse(400, "INVALID_SLUG")

\* C19: a GET whose slug is the empty string is answered with 400
\* INVALID_SLUG.
C19_EmptySlugInvalid ==
  \A g \in Requests :
    (gpc[g] = "done" /\ gslug[g] = Str(<<>>))
      => gresp[g] = ErrorResponse(400, "INVALID_SLUG")

\* C20: a GET always ends with a response; when its connect attempt failed,
\* its query failed or the connection string is missing, the response is
\* 500 INTERNAL_SERVER_ERROR and nothing else.
C20_FailureIs500 ==
  /\ [](\A g \in Requests :
          gpc[g] = "done" =>
            /\ gresp[g].status \in {200, 400, 404, 500}
            /\ glog[g] # NoResult
                 => gresp[g] = ErrorResponse(500, "INTERNAL_SERVER_ERROR")
            /\ (SlugWellFormed(gslug[g].value) /\ ~uriDefined)
                 => /\ glog[g] = ConfigError
                    /\ gresp[g] = ErrorResponse(500, "INTERNAL_SERVER_ERROR"))
  /\ [][\A g \in Requests :
          (gpc[g] = "connect" /\ gpc'[g] # "connect"
             /\ attempt[gatt[g]] = "failed")
            => /\ gpc'[g] = "done"
               /\ glog'[g] = ConnectionError
               /\ gresp'[g] = ErrorResponse(500, "INTERNAL_SERVER_ERROR")]_vars

C20_Witness ==
  \E g \in Requests :
    /\ gpc[g] = "done"
    /\ SlugWellFormed(gslug[g].value)
    /\ FindBySlug(eventStore, gslug[g].value) # {}
    /\ glog[g] = QueryError
    /\ gresp[g] = ErrorResponse(500, "INTERNAL_SERVER_ERROR")

\* a GET whose query completes without an exception
QueryAnswers(g) == gpc[g] = "query" /\ gpc'[g] = "done" /\ glog'[g] = NoResult

\* C21: a GET whose connection works and whose query completes answers 404
\* NOT_FOUND exactly when no stored Event has the requested slug at the
\* query, and 200 otherwise; 404 is the answer to well-formed slugs only.
C21_NotFoundIffNoEvent ==
  /\ [][\A g \in Requests :
          QueryAnswers(g)
            => /\ gresp'[g].status \in {200, 404}
               /\ gresp'[g].status = 404
                    <=> ~\E e \in eventStore : e.slug = gslug[g].value]_vars
  /\ [](\A g \in Requests :
          gresp[g].status = 404
            => /\ gresp[g] = ErrorResponse(404, "NOT_FOUND")
               /\ SlugWellFormed(gslug[g].value)
               /\ glog[g] = NoResult)

C21_Witness ==
  /\ globalMongoose # Undefined
  /\ cacheConn[globalMongoose] = Mongoose
  /\ eventStore # {}
  /\ \E g \in Requests :
       /\ gpc[g] = "done"
       /\ gresp[g] = ErrorResponse(404, "NOT_FOUND")
       /\ \A e \in eventStore : e.slug # gslug[g].value

PublicFields == {"image", "title", "slug", "location", "date", "time"}

\* C22: a GET whose connection works and whose query completes while an
\* Event with the requested slug is stored answers 200; the data has the six
\* public fields and no other, each equal to that Event's field, and its
\* slug is the requested one.
C22_SixPublicFields ==
  [][\A g \in Requests :
       (QueryAnswers(g) /\ \E e \in eventStore : e.slug = gslug[g].value)
         => /\ gresp'[g].status = 200
            /\ DOMAIN gresp'[g].data = PublicFields
            /\ gresp'[g].data.slug = gslug[g].value
            /\ \E e \in eventStore :
                 /\ e.slug = gslug[g].value
                 /\ \A f \in PublicFields : gresp'[g].data[f] = e[f]]_vars

C22_Witness ==
  \E g \in Requests, e \in eventStore :
    /\ gpc[g] = "done"
    /\ gresp[g].status = 200
    /\ gslug[g].value = e.slug
    /\ gresp[g].data.image = e.image
    /\ e.image = FieldValue("image", e.id)
    /\ DOMAIN gresp[g].data = PublicFields

\* C23: every 500 response is the same fixed body, whatever exception was
\* caught: two requests that failed on different exceptions have identical
\* responses, and the response holds nothing of the exception.
C23_Fixed500Body ==
  /\ \A g \in Requests :
       gresp[g].status = 500
         => /\ glog[g] # NoResult
            /\ gresp[g] = [status |-> 500, code |-> "INTERNAL_SERVER_ERROR",
                            message |-> "An unexpected error occurred.",
                            data |-> NoData]
  /\ \A g \in Requests, h \in Requests :
       (gresp[g].status = 500 /\ gresp[h].status = 500) => gresp[g] = gresp[h]

C23_Witness ==
  \E g \in Requests, h \in Requests :
    /\ gpc[g] = "done"
    /\ gpc[h] = "done"
    /\ gresp[g].status = 500
    /\ gresp[h].status = 500
    /\ glog[g] # glog[h]
    /\ glog[h] \in QueryErrors
    /\ gresp[g] = gresp[h]

SlugRejections == {"MISSING_SLUG", "INVALID_SLUG"}

\* C27: the slug is checked before any I/O: a GET answered with MISSING_SLUG
\* or INVALID_SLUG was answered in its first step, which leaves the
\* connection cache, the connect attempts and the store as they are; it
\* awaited no connect attempt and ran no query, and only a well-formed slug
\* ever gets as far as the connection or the query.
C27_SlugCheckedBeforeIO ==
  /\ [](\A g \in Requests :
          /\ gresp[g].code \in SlugRejections
               => /\ gresp[g].status = 400
                  /\ gatt[g] = NoPromise
                  /\ glog[g] = NoResult
          /\ gpc[g] \in {"connect", "query"}
               => (gslug[g].present /\ SlugWellFormed(gslug[g].value)))
  /\ [][\A g \in Requests :
          (gresp'[g].code \in SlugRejections /\ gresp'[g] # gresp[g])
            => /\ gpc[g] = "idle"
               /\ gpc'[g] = "done"
               /\ UNCHANGED <<connVars, storeVars>>]_vars

C27_Witness ==
  /\ routeLoaded
  /\ uriDefined
  /\ connectCalls = 0
  /\ \A o \in Objs : cacheConn[o] = NoConn /\ cachePromise[o] = NoPromise
  /\ \E g \in Requests :
       /\ gpc[g] = "done"
       /\ gslug[g].present
       /\ gslug[g].value # <<>>
       /\ gresp[g] = ErrorResponse(400, "INVALID_SLUG")

\* C30: when every connect attempt settles and every query completes, every
\* GET that waits for the connection or the query, and every connectDB()
\* call that waits for an attempt, comes to return; what it returns is one
\* outcome, a response or a handle or the failure, which stays as it is
\* until the caller has taken it; no call keeps waiting on a settled attempt.
C30_EveryCallReturns ==
  /\ \A g \in Requests : gpc[g] \in {"connect", "query"} ~> gpc[g] = "done"
  /\ \A c \in Callers : cpc[c] = "await" ~> cpc[c] = "done"
  /\ [](\A g \in Requests :
          gpc[g] = "done" => gresp[g].status \in {200, 400, 404, 500})
  /\ [](\A c \in Callers :
          cpc[c] = "done" => cres[c] \in {Mongoose, ConnectionError})
  /\ [][/\ \A g \in Requests :
            (gpc[g] = "done" /\ gpc'[g] = "done") => gresp'[g] = gresp[g]
        /\ \A c \in Callers :
            (cpc[c] = "done" /\ cpc'[c] = "done") => cres'[c] = cres[c]]_vars

C30_Witness ==
  /\ \E g \in Requests :
       /\ gpc[g] = "done"
       /\ gatt[g] # NoPromise
       /\ attempt[gatt[g]] = "failed"
       /\ gresp[g].status = 500
  /\ \E c \in Callers :
       /\ cpc[c] = "done"
       /\ catt[c] # NoPromise
       /\ attempt[catt[c]] = "ok"
       /\ cres[c] = Mongoose

(* ------------------------- claims on Events ---------------------------- *)

\* C24: slug generation is idempotent: generating a slug from the slug of
\* any title given to create, and from any stored slug, gives that slug back.
C24_SlugifyIdempotent ==
  /\ \A e \in eventStore : Slugify(e.slug) = e.slug
  /\ eventRes.outcome # "none"
       => Slugify(Slugify(eventRes.title)) = Slugify(eventRes.title)

C24_Witness ==
  \E e \in eventStore :
    /\ eventRes = [title |-> <<"-", "-", "A">>, outcome |-> "created"]
    /\ e.slug = <<"a">>
    /\ Slugify(e.slug) = e.slug

\* a create has answered with a result other than the one before
CreateAnswers == eventRes' # eventRes

\* C25: no two stored Events share a slug; a create whose title derives a
\* slug that a stored Event has fails with a duplicate-key error and leaves
\* the store as it was, and a created Event has a slug no stored Event had.
C25_SlugUnique ==
  /\ [](\A e \in eventStore, f \in eventStore : e.slug = f.slug => e = f)
  /\ [][/\ (CreateAnswers /\ \E f \in eventStore :
                               f.slug = Slugify(Trim(eventRes'.title)))
            => (eventRes'.outcome = "duplicate_key" /\ eventStore' = eventStore)
        /\ (CreateAnswers /\ eventRes'.outcome = "duplicate_key")
            => /\ eventStore' = eventStore
               /\ \E f \in eventStore : f.slug = Slugify(Trim(eventRes'.title))
        /\ \A e \in eventStore' \ eventStore :
             ~\E f \in eventStore : f.slug = e.slug]_vars

C25_Witness ==
  /\ eventRes.outcome = "duplicate_key"
  /\ Cardinality(eventStore) = 2
  /\ \E f \in eventStore :
       /\ f.slug = Slugify(Trim(eventRes.title))
       /\ f.title # Trim(eventRes.title)

(* ------------------------ claims on bookings --------------------------- *)

\* a save() in progress for a new document whose Event was not stored when
\* Booking.create was called
CreatesDangling(w) == wpc[w] # "idle" /\ wdoc[w].isNew /\ ~wlive0[w]

\* C9: a Booking.create whose eventId refers to no stored Event never ends
\* saved, none of its steps changes the Booking collection, and no stored
\* Booking has its identifier.
C9_DanglingCreateFails ==
  /\ [](\A w \in Writers :
          CreatesDangling(w)
            => /\ wres[w] # "saved"
               /\ wpc[w] # "write"
               /\ \A b \in bookings : b.id # wdoc[w].id)
  /\ [][\A w \in Writers :
          (CreatesDangling(w) /\ wpc'[w] # wpc[w]) => bookings' = bookings]_vars

C9_Witness ==
  \E w \in Writers :
    /\ wpc[w] = "done"
    /\ wdoc[w].isNew
    /\ ~wlive0[w]
    /\ wdoc[w].eventId \in 1..eventCount
    /\ EmailRegexTest(wdoc[w].email)
    /\ wres[w] = "validation_error"

\* C10: whenever a save() writes a Booking whose eventId is new or changed,
\* the Event it references is stored.
C10_EventStoredAtWrite ==
  [][\A w \in Writers :
       (wpc[w] = "write" /\ wpc'[w] = "done"
          /\ (wdoc[w].isNew \/ wdoc[w].modEventId))
         => wdoc[w].eventId \in StoredEventIds]_vars

\* a save() of a stored Booking to which only a new email was assigned
UpdatesEmailOnly(w) ==
  /\ wpc[w] # "idle"
  /\ ~wdoc[w].isNew
  /\ ~wdoc[w].modEventId
  /\ wdoc[w].modEmail

\* C11: a save() whose only change is a (well-formed) email ends saved,
\* whether or not the Event the Booking references is still stored: no
\* lookup of the Event decides it.
C11_EmailOnlySaveSucceeds ==
  \A w \in Writers :
    (UpdatesEmailOnly(w) /\ wpc[w] = "done" /\ EmailRegexTest(wdoc[w].email))
      => wres[w] = "saved"

\* a save() of a stored Booking to which another eventId was assigned
UpdatesEventId(w) == wpc[w] # "idle" /\ ~wdoc[w].isNew /\ wdoc[w].modEventId

\* C12: an update of eventId to an identifier that had no stored Event at
\* the call never ends saved and none of its steps changes the Booking
\* collection; an update of eventId that does not end saved found the Event
\* absent, so one whose Event stays stored ends saved; once saved, the stored
\* Booking carries the new eventId, whatever became of the Event referenced
\* before.
C12_UpdateOfEventId ==
  /\ [](\A w \in Writers :
          (UpdatesEventId(w) /\ ~wlive0[w])
            => wres[w] # "saved" /\ wpc[w] # "write")
  /\ [][\A w \in Writers :
          (UpdatesEventId(w) /\ wpc'[w] # wpc[w] /\ wres'[w] # "saved")
            => bookings' = bookings]_vars
  /\ [](\A w \in Writers :
          (UpdatesEventId(w) /\ wpc[w] = "done")
            => IF wres[w] = "saved"
               THEN \E b \in bookings :
                      b.id = wdoc[w].id /\ b.eventId = wdoc[w].eventId
               ELSE wdoc[w].eventId \notin StoredEventIds)

C12_Witness ==
  \E w \in Writers :
    /\ UpdatesEventId(w)
    /\ wpc[w] = "done"
    /\ wres[w] = "saved"
    /\ eventCount = 2
    /\ wdoc[w].eventId = 2
    /\ StoredEventIds = {2}
    /\ \E b \in bookings : b.id = wdoc[w].id /\ b.eventId = 2

\* C13: a save() reaches the pre-save hook only after the field validator
\* found the Event; whenever the hook runs its own lookup, it finds the Event
\* as well.
C13_SameVerdict ==
  [][\A w \in Writers :
       (wpc[w] = "hook" /\ wpc'[w] # "hook" /\ HookChecksEvent(wdoc[w]))
         => /\ RefersToStoredEvent(eventStore, wdoc[w].eventId)
            /\ wres'[w] # "hook_error"]_vars

\* local-part @ domain-with-dot: exactly one "@", no whitespace, something
\* before the "@", and after it a "." with something on both sides
WellFormedEmail(s) ==
  LET ats == {i \in 1..Len(s) : s[i] = "@"} IN
  /\ Cardinality(ats) = 1
  /\ \A i \in 1..Len(s) : s[i] \notin Whitespace
  /\ \A a \in ats :
       /\ a > 1
       /\ \E d \in (a + 2)..(Len(s) - 1) : s[d] = "."

\* the string has no "@", or no "." after an "@"
LacksAtOrDot(s) ==
  ~\E a \in 1..Len(s), d \in 1..Len(s) : s[a] = "@" /\ s[d] = "." /\ a < d

\* C14: a Booking.create for a stored Event ends saved exactly when the
\* given email, lowercased and trimmed, is local-part @ domain-with-dot;
\* the stored email is then that lowercased, trimmed string; otherwise the
\* create ends in a validation error and nothing is stored; a string without
\* "@" or without "." after the "@" is never saved.
C14_EmailAcceptance ==
  \A w \in Writers :
    (wpc[w] = "done" /\ wdoc[w].isNew /\ wlive0[w]) =>
      LET e == ToLowerCase(Trim(wdoc[w].given)) IN
      /\ wres[w] = "saved" <=> WellFormedEmail(e)
      /\ wres[w] = "saved"
           => \E b \in bookings : b.id = wdoc[w].id /\ b.email = e
      /\ wres[w] # "saved"
           => /\ wres[w] = "validation_error"
              /\ \A b \in bookings : b.id # wdoc[w].id
      /\ LacksAtOrDot(wdoc[w].given) => wres[w] # "saved"

C14_Witness ==
  \E w \in Writers :
    /\ wpc[w] = "done"
    /\ wres[w] = "saved"
    /\ wdoc[w].given = <<" ", "B", "@", "B", ".", "B">>
    /\ \E b \in bookings :
         b.id = wdoc[w].id /\ b.email = <<"b", "@", "b", ".", "b">>

\* a save() of writer w ends without having written
SaveRejected(w) ==
  /\ wpc[w] \in {"validate", "hook", "write"}
  /\ wpc'[w] = "done"
  /\ wres'[w] # "saved"

\* C29: the email of every stored Booking is lowercase, has no leading or
\* trailing whitespace and is local-part @ domain-with-dot; a save that is
\* rejected leaves the collection, the stored email with it, as it was.
C29_StoredEmailNormalised ==
  /\ [](\A b \in bookings :
          /\ ToLowerCase(b.email) = b.email
          /\ Trim(b.email) = b.email
          /\ WellFormedEmail(b.email))
  /\ [][\A w \in Writers : SaveRejected(w) => bookings' = bookings]_vars

C29_Witness ==
  \E w \in Writers, b \in bookings :
    /\ wpc[w] = "done"
    /\ wres[w] = "validation_error"
    /\ ~wdoc[w].isNew
    /\ wdoc[w].modEmail
    /\ wdoc[w].eventId = b.eventId
    /\ b.id = wdoc[w].id
    /\ b.email = <<"b", "@", "b", ".", "c">>
    /\ ~WellFormedEmail(wdoc[w].email)

\* C15: a Booking.create for a stored Event with a well-formed email ends
\* saved whatever Bookings are stored: one that does not end saved found its
\* Event absent; the insert adds one Booking under a new identifier and
\* keeps all the others, so a Booking with the eventId and email of a stored
\* one becomes a second Booking.
C15_NoUniqueness ==
  /\ [](\A w \in Writers :
          (wpc[w] = "done" /\ wdoc[w].isNew /\ EmailRegexTest(wdoc[w].email)
             /\ wres[w] # "saved")
            => wdoc[w].eventId \notin StoredEventIds)
  /\ [][\A w \in Writers :
          (wpc[w] = "write" /\ wpc'[w] = "done" /\ wdoc[w].isNew)
            => /\ wres'[w] = "saved"
               /\ bookings \subseteq bookings'
               /\ Cardinality(bookings') = Cardinality(bookings) + 1
               /\ \A b \in bookings : b.id # wdoc[w].id]_vars

C15_Witness ==
  \E b1 \in bookings, b2 \in bookings :
    /\ b1.id # b2.id
    /\ b1.eventId = b2.eventId
    /\ b1.email = b2.email
    /\ \E w \in Writers :
         wpc[w] = "done" /\ wdoc[w].isNew /\ wdoc[w].id = b2.id
           /\ wres[w] = "saved"

\* C16: a step that removes an Event leaves the Booking collection as it
\* is, the Bookings that reference the removed Event included.
C16_DeleteDoesNotCascade ==
  [][eventStore' # eventStore /\ eventStore' \subseteq eventStore
       => bookings' = bookings]_vars

C16_Witness ==
  /\ eventCount > 0
  /\ eventStore = {}
  /\ \E b \in bookings : b.eventId \in 1..eventCount
  /\ \A w \in Writers : wpc[w] = "idle"

====
